---- MODULE Spec2Model ----
(***************************************************************************)
(* Model of pedro-avalos/line_art: generate_art.py (the command, the       *)
(* renderer generate_art, the point generators, the colour utilities).     *)
(*                                                                         *)
(* Python floats are IEEE-754 binary64 values.  They are modelled exactly: *)
(* a non-negative float is a record [m, e] standing for m * 2^e, where m   *)
(* is a 53-bit natural kept as a sequence of 15-bit limbs (TLC's integers  *)
(* are 32 bits wide), and every float operation rounds its exact result to *)
(* nearest, ties to even, as the hardware does.                            *)
(***************************************************************************)
EXTENDS Integers, Sequences, FiniteSets, TLC

(***************************************************************************)
(* Naturals of any width, as sequences of limbs in base 2^15, least        *)
(* significant limb first, without leading zero limbs.                     *)
(***************************************************************************)
LimbBits == 15
Base == 2 ^ LimbBits

Zeros(k) == [j \in 1..k |-> 0]

RECURSIVE BNFromInt(_)
BNFromInt(n) == IF n = 0 THEN <<>> ELSE <<n % Base>> \o BNFromInt(n \div Base)

RECURSIVE BNToInt(_)
BNToInt(b) == IF b = <<>> THEN 0 ELSE b[1] + Base * BNToInt(Tail(b))

RECURSIVE BNNorm(_)
BNNorm(b) ==
    IF b = <<>> THEN <<>>
    ELSE IF b[Len(b)] = 0 THEN BNNorm(SubSeq(b, 1, Len(b) - 1)) ELSE b

\* a + b + c, the carry c being 0 or 1
RECURSIVE BNAddC(_, _, _)
BNAddC(a, b, c) ==
    IF a = <<>> /\ b = <<>> THEN (IF c = 0 THEN <<>> ELSE <<c>>)
    ELSE LET x == IF a = <<>> THEN 0 ELSE a[1]
             y == IF b = <<>> THEN 0 ELSE b[1]
             s == x + y + c
         IN  <<s % Base>> \o BNAddC(IF a = <<>> THEN <<>> ELSE Tail(a),
                                    IF b = <<>> THEN <<>> ELSE Tail(b), s \div Base)

\* a - b - c for a >= b + c, the borrow c being 0 or 1
RECURSIVE BNSubC(_, _, _)
BNSubC(a, b, c) ==
    IF a = <<>> THEN <<>>
    ELSE LET y == IF b = <<>> THEN 0 ELSE b[1]
             s == a[1] - y - c
         IN  <<s % Base>> \o BNSubC(Tail(a), IF b = <<>> THEN <<>> ELSE Tail(b),
                                    IF s < 0 THEN 1 ELSE 0)

\* a * c + carry for a natural c <= 2^15
RECURSIVE BNMulSmall(_, _, _)
BNMulSmall(a, c, carry) ==
    IF a = <<>> THEN BNFromInt(carry)
    ELSE LET v == a[1] * c + carry
         IN  <<v % Base>> \o BNMulSmall(Tail(a), c, v \div Base)

\* long division of a by a natural 0 < n <= 2^15, limb i downwards
RECURSIVE BNDivStep(_, _, _, _, _)
BNDivStep(a, i, n, r, q) ==
    IF i = 0 THEN [q |-> BNNorm(q), r |-> r]
    ELSE LET v == Base * r + a[i]
         IN  BNDivStep(a, i - 1, n, v % n, <<v \div n>> \o q)

BNDivSmall(a, n) == BNDivStep(a, Len(a), n, 0, <<>>)

\* a < b for normalised a, b: compared from the most significant limb
RECURSIVE BNLessFrom(_, _, _)
BNLessFrom(a, b, i) ==
    IF i = 0 THEN FALSE
    ELSE IF a[i] # b[i] THEN a[i] < b[i] ELSE BNLessFrom(a, b, i - 1)

BNLess(a, b) ==
    IF Len(a) # Len(b) THEN Len(a) < Len(b) ELSE BNLessFrom(a, b, Len(a))

\* the number of bits of a (0 for a = 0)
BNBitLen(a) ==
    IF a = <<>> THEN 0
    ELSE (Len(a) - 1) * LimbBits
         + (CHOOSE k \in 1..LimbBits : 2 ^ (k - 1) <= a[Len(a)] /\ a[Len(a)] < 2 ^ k)

\* bit j of a, bit 1 being the least significant
BNBit(a, j) == (a[((j - 1) \div LimbBits) + 1] \div (2 ^ ((j - 1) % LimbBits))) % 2

\* whether one of the d least significant bits of a is set
BNLowNonZero(a, d) ==
    \/ \E j \in 1..(d \div LimbBits) : a[j] # 0
    \/ /\ d % LimbBits # 0
       /\ a[(d \div LimbBits) + 1] % (2 ^ (d % LimbBits)) # 0

\* a * 2^s and floor(a / 2^s)
BNShl(a, s) ==
    IF a = <<>> THEN <<>>
    ELSE Zeros(s \div LimbBits) \o BNMulSmall(a, 2 ^ (s % LimbBits), 0)

BNShr(a, s) ==
    IF s \div LimbBits >= Len(a) THEN <<>>
    ELSE BNDivSmall(SubSeq(a, (s \div LimbBits) + 1, Len(a)), 2 ^ (s % LimbBits)).q

(***************************************************************************)
(* binary64 arithmetic on non-negative floats: the record [m, e] is the    *)
(* float m * 2^e, with m of exactly MantBits bits, or FZero.               *)
(***************************************************************************)
MantBits == 53

FZero == [m |-> <<>>, e |-> 0]

\* the float nearest to m * 2^e (ties to even), m a normalised natural
FRound(m, e) ==
    LET L == BNBitLen(m) IN
    IF L = 0 THEN FZero
    ELSE IF L <= MantBits
    THEN [m |-> BNShl(m, MantBits - L), e |-> e - (MantBits - L)]
    ELSE LET d      == L - MantBits
             kept   == BNShr(m, d)
             up     == BNBit(m, d) = 1 /\ (BNLowNonZero(m, d - 1) \/ kept[1] % 2 = 1)
             k2     == IF up THEN BNAddC(kept, <<>>, 1) ELSE kept
         IN  IF BNBitLen(k2) > MantBits
             THEN [m |-> BNShr(k2, 1), e |-> e + d + 1]
             ELSE [m |-> k2, e |-> e + d]

FFromInt(n) == FRound(BNFromInt(n), 0)

FAdd(x, y) ==
    IF x = FZero THEN y
    ELSE IF y = FZero THEN x
    ELSE LET emin == IF x.e < y.e THEN x.e ELSE y.e
         IN  FRound(BNAddC(BNShl(x.m, x.e - emin), BNShl(y.m, y.e - emin), 0), emin)

FLess(x, y) ==
    IF y = FZero THEN FALSE
    ELSE IF x = FZero THEN TRUE
    ELSE IF x.e # y.e THEN x.e < y.e ELSE BNLess(x.m, y.m)

\* x - y for x >= y
FSub(x, y) ==
    IF y = FZero THEN x
    ELSE LET emin == IF x.e < y.e THEN x.e ELSE y.e
         IN  FRound(BNNorm(BNSubC(BNShl(x.m, x.e - emin), BNShl(y.m, y.e - emin), 0)),
                    emin)

\* c * x for an int 0 <= c <= 2^15 (such an int converts to float exactly)
FMulInt(c, x) == FRound(BNNorm(BNMulSmall(x.m, c, 0)), x.e)

\* x / n for an int 0 < n < 2^14: the quotient is carried 16 bits further than
\* the mantissa and one more bit records a non-zero remainder
FDivInt(x, n) ==
    LET d == BNDivSmall(BNShl(x.m, 16), n)
    IN  FRound(BNAddC(BNShl(d.q, 1), <<>>, IF d.r = 0 THEN 0 ELSE 1), x.e - 17)

\* int(x): truncation toward zero
FTrunc(x) ==
    IF x = FZero THEN 0
    ELSE IF x.e >= 0 THEN BNToInt(BNShl(x.m, x.e))
    ELSE BNToInt(BNShr(x.m, -x.e))

FOne == FFromInt(1)
FHalf == FDivInt(FOne, 2)

\* math.pi = 0x1.921FB54442D18p+1 = 0x1921FB54442D18 * 2^-51
MathPi == [m |-> <<11544, 10376, 2029, 201>>, e |-> -51]

(***************************************************************************)
(* Bounds of the model.                                                    *)
(***************************************************************************)
MaxLines == 10        \* num_lines of a direct call of generate_art: 0..MaxLines
MaxBranchLines == 3   \* ... with a generator that has more than one point to give
MaxScale == 2         \* scale_factor: -1..MaxScale
MaxCount == 2         \* --count of the command: 0..MaxCount
MaxMainLines == 3     \* --num_lines of the command: 0..MaxMainLines
MaxLoveN == 6         \* n of LovePointGenerator: 1..MaxLoveN
MaxLoveCalls == 6     \* generate() calls made on a LovePointGenerator
MaxOverlays == 3      \* overlays added onto one pixel

ScaleFactors == (-1)..MaxScale
TargetSizes == {1, 2, 100}
Hues == {FZero, FDivInt(FOne, 4)}
Collections == {"collection"}
Names == {"art"}
\* what a generator behind PointGeneratorInterface may return
PointSets ==
    { {[x |-> 5, y |-> 5]},
      {[x |-> 10, y |-> 20], [x |-> 100, y |-> 80], [x |-> 33, y |-> 81]} }
\* the command line: --size, --margin
Sizes == {1, 4}
Margins == {FHalf, FDivInt(FFromInt(3), 4)}
\* a RandPointGenerator handed to generate_art directly: minimum, maximum
RandRanges == {<<3, 1>>}
\* LovePointGenerator: minimum, maximum
LoveRanges == {<<0, 1>>, <<1, 2>>}
\* values of one channel of an overlay
ChannelValues == {0, 55, 100, 200, 255}

None == "None"

(***************************************************************************)
(* Text: str(int), f-strings, os.path.join of plain names.                 *)
(***************************************************************************)
Digit(d) ==
    CASE d = 0 -> "0" [] d = 1 -> "1" [] d = 2 -> "2" [] d = 3 -> "3" [] d = 4 -> "4"
      [] d = 5 -> "5" [] d = 6 -> "6" [] d = 7 -> "7" [] d = 8 -> "8" [] d = 9 -> "9"

\* str(n) for an int n >= 0
RECURSIVE Str(_)
Str(n) == IF n < 10 THEN Digit(n) ELSE Str(n \div 10) \o Digit(n % 10)

\* os.path.join(a, b) for a non-empty a and a plain name b
PathJoin(a, b) == a \o "/" \o b

OutputDir(coll) == PathJoin("output", coll)
ImgPath(dir, nm) == PathJoin(dir, nm \o ".png")

\* a variant of ImageName: the index is left out of the name
ImageNameNoIndex(coll, k) == coll \o "_img"

\* f"{args.collection}_img_{i}"
ImageName(coll, k) == coll \o "_img_" \o Str(k)

\* f"{i + 1}/{args.count}"
ProgressLine(k, cnt) == Str(k + 1) \o "/" \o Str(cnt)

(***************************************************************************)
(* Colour utilities.                                                       *)
(***************************************************************************)
\* colorsys.hsv_to_rgb(h, 1, 1): three floats
HsvToRgb(h) ==
    LET h6 == FMulInt(6, h)
        k  == FTrunc(h6)
        f  == FSub(h6, FFromInt(k))
        p  == FZero
        q  == FSub(FOne, f)
        t  == FSub(FOne, FSub(FOne, f))
        v  == FOne
    IN  CASE k % 6 = 0 -> <<v, t, p>>
          [] k % 6 = 1 -> <<q, v, p>>
          [] k % 6 = 2 -> <<p, v, t>>
          [] k % 6 = 3 -> <<p, q, v>>
          [] k % 6 = 4 -> <<t, p, v>>
          [] k % 6 = 5 -> <<v, p, q>>

\* rand_color() for the hue h that random.random() returned
RandColor(h) == [c \in 1..3 |-> FTrunc(FMulInt(255, HsvToRgb(h)[c]))]

\* interpolate(start_color, end_color, factor) for a factor in [0, 1]
interpolate(start, end, factor) ==
    LET recip == FSub(FOne, factor)
    IN  [c \in 1..3 |-> FTrunc(FAdd(FMulInt(start[c], recip), FMulInt(end[c], factor)))]

\* a variant of ChopsAdd: the sum wraps as an 8-bit integer does
ChopsAddWrap(a, b) == (a + b) % 256

\* ImageChops.add(image1, image2) on one channel of one pixel (scale 1, offset 0):
\* the sum, clipped to 0..255
ChopsAdd(a, b) == IF a + b > 255 THEN 255 ELSE IF a + b < 0 THEN 0 ELSE a + b

(***************************************************************************)
(* The renderer's pure steps.                                              *)
(***************************************************************************)
Point(px, py) == [x |-> px, y |-> py]

\* lines 254-266: the bounding box of a non-empty list of points
RECURSIVE MinOf(_)
MinOf(s) ==
    IF Len(s) = 1 THEN s[1]
    ELSE LET m == MinOf(Tail(s)) IN IF s[1] < m THEN s[1] ELSE m

RECURSIVE MaxOf(_)
MaxOf(s) ==
    IF Len(s) = 1 THEN s[1]
    ELSE LET m == MaxOf(Tail(s)) IN IF s[1] > m THEN s[1] ELSE m

Xs(pts) == [k \in 1..Len(pts) |-> pts[k].x]
Ys(pts) == [k \in 1..Len(pts) |-> pts[k].y]

\* line 269-270: delta = min - (size - max)
Delta(mn, mx, sz) == mn - (sz - mx)

\* a variant of HalfDelta: division truncating toward zero
HalfDeltaTrunc(delta) == IF delta < 0 THEN -((-delta) \div 2) ELSE delta \div 2

\* line 271: delta // 2 (Python's floor division)
HalfDelta(delta) == delta \div 2

\* lines 253-271: the list re-centred
Center(pts, sz) ==
    LET delta_x == Delta(MinOf(Xs(pts)), MaxOf(Xs(pts)), sz)
        delta_y == Delta(MinOf(Ys(pts)), MaxOf(Ys(pts)), sz)
    IN  [k \in 1..Len(pts) |->
            Point(pts[k].x - HalfDelta(delta_x), pts[k].y - HalfDelta(delta_y))]

\* a variant of SecondPoint: the last segment does not wrap to the first point
SecondPointNoWrap(pts, k) == IF k = Len(pts) - 1 THEN pts[k + 1] ELSE pts[k + 2]

\* line 282: p2 of segment i (0-based), pts being 1-based here
SecondPoint(pts, k) == IF k = Len(pts) - 1 THEN pts[1] ELSE pts[k + 2]

\* line 285: color_factor = i / n
ColorFactor(k, n) == FDivInt(FFromInt(k), n)

\* variants of NextThickness: no taper; the taper starting after a segment
\* with color_factor > 0.5 only
NextThicknessNoTaper(th, sf, color_factor) == th + sf

NextThicknessLate(th, sf, color_factor) ==
    th + (IF FLess(color_factor, FHalf) \/ color_factor = FHalf THEN sf ELSE -sf)

\* line 294: the thickness of the next line
NextThickness(th, sf, color_factor) ==
    th + (IF FLess(color_factor, FHalf) THEN sf ELSE -sf)

\* a variant of ResizedSide: the image is saved at the size of the canvas
ResizedSideKept(sz, sf) == sz

\* lines 300-302: the size the image is resized to
ResizedSide(sz, sf) == sz \div sf

(***************************************************************************)
(* State.                                                                  *)
(***************************************************************************)
VARIABLES
    args,             \* __main__: the parsed command line, or None
    mpc,              \* __main__: "loop", "call", "exit", "raised"; "direct" when
                      \* generate_art is called by some other caller; "love" and
                      \* "pixel" when a generator or the compositing runs alone
    main_i,           \* __main__: the loop variable i
    log,              \* what has been printed, created and saved, in order
    dirs,             \* the directories that exist
    files,            \* the image files that exist: path, width, height
    pc,               \* generate_art: "begin", "colors", "points", "center", "draw",
                      \* "finish", "returned", "raised"; "idle" outside a call
    err,              \* the exception that was raised, or None
    collection, name, target_size, scale_factor, num_lines, point_generator,
    output_dir, img_path, size, img, start_color, end_color,
    points,           \* the list being built by generate_points, then `points`
    raw_points,       \* the list generate_points returned (line 251)
    thickness, i,
    drawn,            \* the overlay_draw.line calls made: p1, p2, fill, width
    calls,            \* generate() calls made on point_generator in this call
    angles,           \* LovePointGenerator: the angle i each generate() used
    returned,         \* LovePointGenerator: the point the last generate() returned
    acc, overlays     \* one channel of one pixel of img, and what was added to it

mainVars == <<args, mpc, main_i>>
fsVars == <<log, dirs, files>>
paramVars == <<collection, name, target_size, scale_factor, num_lines>>
localVars == <<output_dir, img_path, size, img, start_color, end_color, points,
               raw_points, thickness, i, drawn>>
genVars == <<point_generator, calls, angles, returned>>
pixelVars == <<acc, overlays>>
vars == <<mainVars, fsVars, pc, err, paramVars, localVars, genVars, pixelVars>>

NoLocals ==
    /\ output_dir = None /\ img_path = None /\ size = None /\ img = None
    /\ start_color = None /\ end_color = None /\ points = <<>> /\ raw_points = <<>>
    /\ thickness = None /\ i = None /\ drawn = <<>>

NoCall ==
    /\ pc = "idle" /\ err = None
    /\ collection = None /\ name = None /\ target_size = None
    /\ scale_factor = None /\ num_lines = None
    /\ NoLocals

(***************************************************************************)
(* The point generators.                                                   *)
(***************************************************************************)
\* RandPointGenerator.__init__(minimum, maximum)
RandPointGenerator(minimum, maximum) ==
    [kind |-> "rand", minimum |-> minimum, maximum |-> maximum]

\* LovePointGenerator.__init__(minimum, maximum, n), n >= 1
LovePointGenerator(minimum, maximum, n) ==
    [kind |-> "love", minimum |-> minimum, maximum |-> maximum,
     t |-> FZero, step |-> FDivInt(FMulInt(2, MathPi), n)]

\* some other implementation of PointGeneratorInterface, returning points of pts
AnyPointGenerator(pts) == [kind |-> "any", pts |-> pts]

\* the points RandPointGenerator.generate may return: random.randint(a, b) is any
\* int of a..b and raises ValueError when a > b
RandPoints(g) == {Point(px, py) : px \in g.minimum..g.maximum, py \in g.minimum..g.maximum}

\* the points generate() of g may return (empty: the call raises ValueError)
GeneratorPoints(g) == IF g.kind = "rand" THEN RandPoints(g) ELSE g.pts

(***************************************************************************)
(* generate_art, step by step.                                             *)
(***************************************************************************)
Raise(e) == pc' = "raised" /\ err' = e

\* lines 234-244: the paths, the canvas size, the directory, the base image
Begin ==
    /\ pc = "begin"
    /\ output_dir' = OutputDir(collection)
    /\ img_path' = ImgPath(OutputDir(collection), name)
    /\ size' = target_size * scale_factor
    /\ dirs' = dirs \cup {"output", OutputDir(collection)}
    /\ log' = Append(log, <<"makedirs", OutputDir(collection)>>)
    /\ \/ /\ target_size * scale_factor < 0          \* Image.new: ValueError
          /\ Raise("ValueError")
          /\ UNCHANGED img
       \/ /\ target_size * scale_factor >= 0
          /\ img' = [w |-> target_size * scale_factor, h |-> target_size * scale_factor]
          /\ pc' = "colors"
          /\ UNCHANGED err
    /\ UNCHANGED <<mainVars, files, paramVars, genVars, pixelVars, start_color,
                   end_color, points, raw_points, thickness, i, drawn>>

\* lines 247-248: the two colours
Colors ==
    /\ pc = "colors"
    /\ \E h1 \in Hues, h2 \in Hues :
          /\ start_color' = RandColor(h1)
          /\ end_color' = RandColor(h2)
    /\ pc' = IF num_lines <= 0 THEN "center" ELSE "points"
    /\ UNCHANGED <<mainVars, fsVars, err, paramVars, genVars, pixelVars, output_dir,
                   img_path, size, img, points, raw_points, thickness, i, drawn>>

\* lines 251 and 188: one generator.generate() of the list comprehension
Generate ==
    /\ pc = "points"
    /\ point_generator.kind \in {"rand", "any"}
    /\ calls' = calls + 1
    /\ \/ /\ GeneratorPoints(point_generator) = {}
          /\ Raise("ValueError")
          /\ UNCHANGED points
       \/ /\ \E p \in GeneratorPoints(point_generator) : points' = Append(points, p)
          /\ pc' = IF Len(points) + 1 = num_lines THEN "center" ELSE "points"
          /\ UNCHANGED err
    /\ UNCHANGED <<mainVars, fsVars, paramVars, point_generator, angles, returned,
                   pixelVars,
                   output_dir, img_path, size, img, start_color, end_color, raw_points,
                   thickness, i, drawn>>

\* lines 253-275: the bounding box, the centring, the first thickness
CenterPoints ==
    /\ pc = "center"
    /\ raw_points' = points
    /\ \/ /\ points = <<>>                            \* points[0]: IndexError
          /\ Raise("IndexError")
          /\ UNCHANGED <<points, thickness, i>>
       \/ /\ points # <<>>
          /\ points' = Center(points, size)
          /\ thickness' = scale_factor
          /\ i' = 0
          /\ pc' = "draw"
          /\ UNCHANGED err
    /\ UNCHANGED <<mainVars, fsVars, paramVars, genVars, pixelVars, output_dir,
                   img_path, size, img, start_color, end_color, drawn>>

\* lines 276-297: one turn of the loop over the points
Draw ==
    /\ pc = "draw"
    /\ \/ /\ Len(points) - 1 = 0                      \* i / n: ZeroDivisionError
          /\ Raise("ZeroDivisionError")
          /\ UNCHANGED <<thickness, i, drawn, img>>
       \/ /\ Len(points) - 1 # 0
          /\ LET n == Len(points) - 1
                 p1 == points[i + 1]
                 p2 == SecondPoint(points, i)
                 color_factor == ColorFactor(i, n)
                 line_color == interpolate(start_color, end_color, color_factor)
             IN  /\ drawn' = Append(drawn, [p1 |-> p1, p2 |-> p2, fill |-> line_color,
                                            width |-> thickness])
                 /\ thickness' = NextThickness(thickness, scale_factor, color_factor)
          /\ img' = [w |-> size, h |-> size]     \* ImageChops.add keeps the size
          /\ i' = i + 1
          /\ pc' = IF i + 1 = Len(points) THEN "finish" ELSE "draw"
          /\ UNCHANGED err
    /\ UNCHANGED <<mainVars, fsVars, paramVars, genVars, pixelVars, output_dir,
                   img_path, size, start_color, end_color, points, raw_points>>

\* lines 300-305: the resize and the save
Finish ==
    /\ pc = "finish"
    /\ \/ /\ scale_factor = 0                         \* size // 0: ZeroDivisionError
          /\ Raise("ZeroDivisionError")
          /\ UNCHANGED <<img, fsVars>>
       \/ /\ scale_factor # 0
          /\ img' = [w |-> ResizedSide(size, scale_factor),
                     h |-> ResizedSide(size, scale_factor)]
          /\ files' = {f \in files : f.path # img_path}
                        \cup {[path |-> img_path, w |-> ResizedSide(size, scale_factor),
                               h |-> ResizedSide(size, scale_factor)]}
          /\ log' = Append(log, <<"save", img_path>>)
          /\ pc' = "returned"
          /\ UNCHANGED <<err, dirs>>
    /\ UNCHANGED <<mainVars, paramVars, genVars, pixelVars, output_dir, img_path, size,
                   start_color, end_color, points, raw_points, thickness, i, drawn>>

Render == Begin \/ Colors \/ Generate \/ CenterPoints \/ Draw \/ Finish

(***************************************************************************)
(* __main__ (lines 308-329).                                               *)
(***************************************************************************)
\* lines 313-314: minimum = int(size * args.margin), maximum = size - minimum
MainMinimum(a) == FTrunc(FMulInt(a.size, a.margin))
MainMaximum(a) == a.size - MainMinimum(a)

\* lines 311-329: one turn of the loop, up to the call of generate_art
MainIter ==
    /\ mpc = "loop"
    /\ main_i < args.count
    /\ point_generator' = RandPointGenerator(MainMinimum(args), MainMaximum(args))
    /\ calls' = 0
    /\ log' = Append(log, <<"print", ProgressLine(main_i, args.count)>>)
    /\ collection' = args.collection
    /\ name' = ImageName(args.collection, main_i)
    /\ target_size' = args.size
    /\ scale_factor' = args.scale_factor
    /\ num_lines' = args.num_lines
    /\ pc' = "begin"
    /\ mpc' = "call"
    /\ UNCHANGED <<args, main_i, dirs, files, err, localVars, angles, returned, pixelVars>>

\* generate_art returned: its frame is gone, the loop goes on
MainReturn ==
    /\ mpc = "call"
    /\ pc = "returned"
    /\ main_i' = main_i + 1
    /\ mpc' = "loop"
    /\ pc' = "idle"
    /\ collection' = None /\ name' = None /\ target_size' = None
    /\ scale_factor' = None /\ num_lines' = None
    /\ output_dir' = None /\ img_path' = None /\ size' = None /\ img' = None
    /\ start_color' = None /\ end_color' = None /\ points' = <<>> /\ raw_points' = <<>>
    /\ thickness' = None /\ i' = None /\ drawn' = <<>>
    /\ point_generator' = None
    /\ calls' = 0
    /\ UNCHANGED <<args, fsVars, err, angles, returned, pixelVars>>

\* range(args.count) is exhausted: the command ends, exit status 0
MainExit ==
    /\ mpc = "loop"
    /\ main_i >= args.count
    /\ mpc' = "exit"
    /\ UNCHANGED <<args, main_i, fsVars, pc, err, paramVars, localVars, genVars, pixelVars>>

\* generate_art raised: nothing catches it, the command ends with a traceback
MainRaised ==
    /\ mpc = "call"
    /\ pc = "raised"
    /\ mpc' = "raised"
    /\ UNCHANGED <<args, main_i, fsVars, pc, err, paramVars, localVars, genVars, pixelVars>>

(***************************************************************************)
(* LovePointGenerator.generate (lines 88-98).                              *)
(***************************************************************************)
\* The trigonometry and the four random.random() draws are not computed: x and y
\* range over every value the two expressions can take, sin(i)^3 being in [-1, 1]
\* and the jittered sum being below 1.7 * maximum in absolute value.
LoveJitter(maximum) == IF maximum = 0 THEN 0 ELSE ((17 * maximum + 9) \div 10) - 1

LovePoints(g) ==
    {Point(g.maximum - sx, g.maximum - sy) :
        sx \in (-g.maximum)..g.maximum,
        sy \in (-LoveJitter(g.maximum))..LoveJitter(g.maximum)}

\* a variant of LoveAdvance: t is assigned the step instead of advanced by it
LoveAdvanceAssign(t, step) == step

\* line 90: self.t += self.step
LoveAdvance(t, step) == FAdd(t, step)

LoveGenerate ==
    /\ mpc = "love"
    /\ calls < MaxLoveCalls
    /\ angles' = Append(angles, point_generator.t)
    /\ point_generator' =
          [point_generator EXCEPT !.t = LoveAdvance(point_generator.t, point_generator.step)]
    /\ \E p \in LovePoints(point_generator) : returned' = p
    /\ calls' = calls + 1
    /\ UNCHANGED <<mainVars, fsVars, pc, err, paramVars, localVars, pixelVars>>

(***************************************************************************)
(* The compositing of line 297 on one channel of one pixel.                *)
(***************************************************************************)
Composite ==
    /\ mpc = "pixel"
    /\ Len(overlays) < MaxOverlays
    /\ \E v \in ChannelValues :
          /\ acc' = ChopsAdd(acc, v)
          /\ overlays' = Append(overlays, v)
    /\ UNCHANGED <<mainVars, fsVars, pc, err, paramVars, localVars, genVars>>

(***************************************************************************)
(* Specifications.                                                         *)
(***************************************************************************)
EmptyWorld ==
    /\ log = <<>> /\ dirs = {} /\ files = {}
    /\ angles = <<>> /\ returned = None
    /\ acc = 0 /\ overlays = <<>>
    /\ calls = 0

\* the command: python generate_art.py --collection .. --count .. --size ..
Init ==
    /\ args \in [collection : Collections, count : 0..MaxCount, size : Sizes,
                 scale_factor : ScaleFactors, margin : Margins,
                 num_lines : 0..MaxMainLines]
    /\ mpc = "loop"
    /\ main_i = 0
    /\ point_generator = None
    /\ NoCall
    /\ EmptyWorld

Next == MainIter \/ MainReturn \/ MainExit \/ MainRaised \/ Render

Spec == Init /\ [][Next]_vars

\* generate_art called by another caller, with any arguments and generator
ArtGenerators ==
    {AnyPointGenerator(ps) : ps \in PointSets}
        \cup {RandPointGenerator(r[1], r[2]) : r \in RandRanges}

InitArt ==
    /\ args = None /\ mpc = "direct" /\ main_i = None
    /\ pc = "begin" /\ err = None
    /\ collection \in Collections
    /\ name \in Names
    /\ target_size \in TargetSizes
    /\ scale_factor \in ScaleFactors
    /\ num_lines \in 0..MaxLines
    /\ point_generator \in ArtGenerators
    /\ Cardinality(GeneratorPoints(point_generator)) > 1 => num_lines <= MaxBranchLines
    /\ NoLocals
    /\ EmptyWorld

SpecArt == InitArt /\ [][Render]_vars

\* a LovePointGenerator and a caller of its generate()
InitLove ==
    /\ args = None /\ mpc = "love" /\ main_i = None
    /\ \E r \in LoveRanges, n \in 1..MaxLoveN :
          point_generator = LovePointGenerator(r[1], r[2], n)
    /\ NoCall
    /\ EmptyWorld

SpecLove == InitLove /\ [][LoveGenerate]_vars

\* one channel of one pixel of the black accumulator image
InitPixel ==
    /\ args = None /\ mpc = "pixel" /\ main_i = None
    /\ point_generator = None
    /\ NoCall
    /\ EmptyWorld

SpecPixel == InitPixel /\ [][Composite]_vars

(***************************************************************************)
(* Properties.                                                             *)
(***************************************************************************)
Widths == [k \in 1..Len(drawn) |-> drawn[k].width]

SetMin(S) == CHOOSE m \in S : \A v \in S : m <= v
SetMax(S) == CHOOSE m \in S : \A v \in S : m >= v

RECURSIVE SeqSum(_)
SeqSum(s) == IF s = <<>> THEN 0 ELSE s[1] + SeqSum(Tail(s))

Decimal == <<"0", "1", "2", "3", "4", "5", "6", "7", "8", "9", "10", "11", "12">>

\* C1: a configuration with an invalid numeric range (num_lines < 2, minimum >
\* maximum, scale_factor <= 0) is rejected before rendering begins: the output
\* directory is never created, no colour is drawn, the generator is never called,
\* and no arithmetic fault (ZeroDivisionError, IndexError, a ValueError from the
\* random source or the image library) is what ends the command.
ArgsInvalid ==
    \/ args.num_lines < 2
    \/ args.scale_factor <= 0
    \/ MainMinimum(args) > MainMaximum(args)

C1_InvalidConfigRejected ==
    ArgsInvalid =>
        /\ dirs = {}
        /\ pc \in {"idle", "begin", "raised"}
        /\ calls = 0
        /\ err \notin {"ZeroDivisionError", "IndexError", "ValueError"}

\* C2 as stated: for num_lines = 10 and scale_factor = 2 the ten segments are drawn
\* with the thicknesses 2,4,6,8,10,8,6,4,2,0.
C2_ThicknessAsClaimed ==
    (num_lines = 10 /\ scale_factor = 2 /\ pc \in {"finish", "returned"})
        => Widths = <<2, 4, 6, 8, 10, 8, 6, 4, 2, 0>>

\* C2 as amended: for num_lines = 10 and scale_factor = 2 the ten segments are drawn
\* with the thicknesses 2,4,6,8,10,12,10,8,6,4: the first is scale_factor, and the
\* thickness rises by scale_factor after a segment with i/(num_lines-1) < 0.5 (here
\* i <= 4) and falls by scale_factor after one with i/(num_lines-1) >= 0.5.
C2_ThicknessSequence ==
    (num_lines = 10 /\ scale_factor = 2) =>
        /\ \A k \in 1..Len(drawn) : Widths[k] = <<2, 4, 6, 8, 10, 12, 10, 8, 6, 4>>[k]
        /\ \A k \in 1..(Len(drawn) - 1) :
              Widths[k + 1] = Widths[k] + (IF 2 * (k - 1) < num_lines - 1 THEN 2 ELSE -2)
        /\ pc \in {"finish", "returned"} => Len(drawn) = 10

C2_Witness ==
    num_lines = 10 /\ scale_factor = 2 /\ pc = "returned" /\ Len(drawn) = 10

\* C3 as stated: whenever target_size >= 1, scale_factor >= 1 and num_lines >= 2, a
\* call of generate_art does not fail, it works on a canvas of target_size *
\* scale_factor pixels a side, and once it has returned exactly one file exists,
\* output/<collection>/<name>.png, of target_size x target_size pixels, saved once.
ExpectedPath == "output/" \o collection \o "/" \o name \o ".png"

OneImageWritten ==
    /\ pc # "raised"
    /\ pc \in {"colors", "points", "center", "draw", "finish"} =>
          /\ size = target_size * scale_factor
          /\ img = [w |-> size, h |-> size]
          /\ files = {}
    /\ pc = "returned" =>
          /\ files = {[path |-> ExpectedPath, w |-> target_size, h |-> target_size]}
          /\ img = [w |-> target_size, h |-> target_size]
          /\ SelectSeq(log, LAMBDA e : e[1] = "save") = <<(<<"save", ExpectedPath>>)>>

C3_AnyGenerator ==
    (target_size >= 1 /\ scale_factor >= 1 /\ num_lines >= 2) => OneImageWritten

\* C3 as amended: the same, for a generator whose generate() returns a point on
\* every call (a RandPointGenerator with minimum <= maximum, or any other
\* implementation that returns points).
C3_OneImageOfTargetSize ==
    (/\ target_size >= 1 /\ scale_factor >= 1 /\ num_lines >= 2
     /\ GeneratorPoints(point_generator) # {}) => OneImageWritten

C3_Witness ==
    /\ pc = "returned" /\ scale_factor = 2 /\ target_size = 100 /\ num_lines = 3
    /\ files = {[path |-> "output/collection/art.png", w |-> 100, h |-> 100]}

\* C4: a command run with count = c and collection = k prints "<i+1>/<c>" and then
\* saves output/<k>/<k>_img_<i>.png, for i = 0, 1, ... in that order; when it ends
\* successfully there were exactly c progress lines and c saves, alternating, and
\* the c files are pairwise distinct.
Observed == SelectSeq(log, LAMBDA e : e[1] \in {"print", "save"})

ExpectedLine(k, c) == Decimal[k + 2] \o "/" \o Decimal[c + 1]
ExpectedFile(coll, k) ==
    "output/" \o coll \o "/" \o coll \o "_img_" \o Decimal[k + 1] \o ".png"

C4_ProgressThenFile ==
    mpc \in {"loop", "call", "exit", "raised"} =>
        /\ \A j \in 1..Len(Observed) :
              Observed[j] = IF j % 2 = 1
                            THEN <<"print", ExpectedLine((j - 1) \div 2, args.count)>>
                            ELSE <<"save", ExpectedFile(args.collection, (j \div 2) - 1)>>
        /\ mpc = "exit" =>
              /\ Len(Observed) = 2 * args.count
              /\ Cardinality(files) = args.count
              /\ {f.path : f \in files}
                    = {ExpectedFile(args.collection, k) : k \in 0..(args.count - 1)}
              /\ \A a, b \in 1..args.count :
                    a # b => Observed[2 * a][2] # Observed[2 * b][2]

C4_Witness ==
    /\ mpc = "exit" /\ args.count = 2
    /\ Observed = << <<"print", "1/2">>, <<"save", "output/collection/collection_img_0.png">>,
                     <<"print", "2/2">>, <<"save", "output/collection/collection_img_1.png">> >>

\* C5: on every channel the accumulator is min(255, sum of the overlays added), it
\* stays in 0..255, every order of the same overlays gives the same value, and the
\* overlays 200 and 100 give 255.
RECURSIVE Composed(_, _, _)
Composed(ovs, order, k) ==
    IF k = 0 THEN 0 ELSE ChopsAdd(Composed(ovs, order, k - 1), ovs[order[k]])

C5_SaturatingAdd ==
    mpc = "pixel" =>
        /\ acc = (IF SeqSum(overlays) > 255 THEN 255 ELSE SeqSum(overlays))
        /\ acc \in 0..255
        /\ \A order \in Permutations(1..Len(overlays)) :
              Composed(overlays, order, Len(overlays)) = acc
        /\ overlays = <<200, 100>> => acc = 255

C5_Witness == mpc = "pixel" /\ overlays = <<200, 100>> /\ acc = 255

\* C6: after the centring the bounding box of the points is in the middle of the
\* canvas: with deltaX = minX - (size - maxX) of the generated points, the shifted
\* box has minX' - (size - maxX') = deltaX mod 2 (0 or 1), the same for y, every
\* point is shifted by the same amount -(delta // 2), and the box 10..100 x 20..80
\* on a canvas of 200 becomes 55..145 x 70..130.
Centered == mpc = "direct" /\ Len(raw_points) > 0 /\ Len(points) = Len(raw_points)

RawXs == {raw_points[k].x : k \in 1..Len(raw_points)}
RawYs == {raw_points[k].y : k \in 1..Len(raw_points)}
NewXs == {points[k].x : k \in 1..Len(points)}
NewYs == {points[k].y : k \in 1..Len(points)}

C6_Centering ==
    Centered =>
        LET dX == SetMin(RawXs) - (size - SetMax(RawXs))
            dY == SetMin(RawYs) - (size - SetMax(RawYs))
        IN  /\ SetMin(NewXs) - (size - SetMax(NewXs)) = dX % 2
            /\ SetMin(NewYs) - (size - SetMax(NewYs)) = dY % 2
            /\ \A k \in 1..Len(points) :
                  /\ 2 * (raw_points[k].x - points[k].x) \in {dX, dX - 1}
                  /\ 2 * (raw_points[k].y - points[k].y) \in {dY, dY - 1}
                  /\ raw_points[k].x - points[k].x = raw_points[1].x - points[1].x
                  /\ raw_points[k].y - points[k].y = raw_points[1].y - points[1].y
            /\ (/\ SetMin(RawXs) = 10 /\ SetMax(RawXs) = 100
                /\ SetMin(RawYs) = 20 /\ SetMax(RawYs) = 80 /\ size = 200)
                  => /\ SetMin(NewXs) = 55 /\ SetMax(NewXs) = 145
                     /\ SetMin(NewYs) = 70 /\ SetMax(NewYs) = 130

C6_Witness ==
    /\ Centered /\ size = 200
    /\ RawXs = {10, 100} /\ RawYs = {20, 80}
    /\ NewXs = {55, 145} /\ NewYs = {70, 130}

\* C7: the first segment of a render is drawn in start_color (factor 0), the last in
\* end_color (factor 1), and when the two colours are equal every segment is drawn
\* in that colour (interpolate(c, c, f) = c for any f).
C7_InterpolateExact ==
    mpc = "direct" =>
        \A k \in 1..Len(drawn) :
            /\ k = 1 => drawn[k].fill = start_color
            /\ k = num_lines => drawn[k].fill = end_color
            /\ start_color = end_color => drawn[k].fill = start_color

\* C8 as stated: after k calls t = k * step, and call k used the angle (k-1) * step.
C8_MultipleOfStep ==
    mpc = "love" =>
        /\ point_generator.t = FMulInt(calls, point_generator.step)
        /\ \A k \in 1..Len(angles) : angles[k] = FMulInt(k - 1, point_generator.step)

\* C8 as amended: t is 0 after construction; each generate() uses the angle t had
\* and leaves t + step, the float sum, so that after k calls t is the k-fold float
\* sum 0 + step + ... + step (not always the float k * step); the angles increase
\* strictly; step never changes and nothing depends on the point returned.
RECURSIVE FloatSum(_, _)
FloatSum(step, k) == IF k = 0 THEN FZero ELSE FAdd(FloatSum(step, k - 1), step)

C8_AngleAdvancesByStep ==
    mpc = "love" =>
        /\ Len(angles) = calls
        /\ point_generator.t = FloatSum(point_generator.step, calls)
        /\ \A k \in 1..Len(angles) : angles[k] = FloatSum(point_generator.step, k - 1)
        /\ \A k \in 1..(Len(angles) - 1) : FLess(angles[k], angles[k + 1])
        /\ calls > 0 => FLess(angles[calls], point_generator.t)
        /\ \E n \in 1..MaxLoveN :
              point_generator.step = FDivInt(FMulInt(2, MathPi), n)

C8_Witness ==
    /\ mpc = "love" /\ calls = 6
    /\ point_generator.step = FDivInt(FMulInt(2, MathPi), 6)
    /\ point_generator.t # FMulInt(6, point_generator.step)

\* C9: for num_lines >= 2 the generator is called exactly num_lines times and
\* exactly num_lines segments are drawn, segment i from p[i] to p[(i+1) mod
\* num_lines]: one closed cycle, and no index goes past the end of the list.
C9_ClosedCycle ==
    (mpc = "direct" /\ num_lines >= 2) =>
        /\ calls <= num_lines
        /\ Len(drawn) <= num_lines
        /\ err # "IndexError"
        /\ pc \in {"center", "draw", "finish", "returned"} =>
              calls = num_lines /\ Len(points) = num_lines
        /\ pc \in {"finish", "returned"} => Len(drawn) = num_lines
        /\ \A k \in 1..Len(drawn) :
              /\ drawn[k].p1 = points[k]
              /\ drawn[k].p2 = points[(k % num_lines) + 1]

C9_Witness ==
    /\ mpc = "direct" /\ pc = "returned" /\ num_lines = 3 /\ Len(drawn) = 3
    /\ points[1] # points[3] /\ points[1] # points[2]
    /\ drawn[3].p1 = points[3] /\ drawn[3].p2 = points[1]

\* C10: for num_lines >= 2 and scale_factor >= 1 every segment is drawn with a
\* thickness that is a positive multiple of scale_factor: (i+1) * scale_factor up to
\* the peak at the first i with i/(num_lines-1) >= 0.5, one scale_factor less per
\* segment after it; the last one is scale_factor for an odd num_lines and
\* 2 * scale_factor for an even one.
Peak == num_lines \div 2

C10_ThicknessRamp ==
    (mpc = "direct" /\ num_lines >= 2 /\ scale_factor >= 1) =>
        /\ \A k \in 1..Len(drawn) :
              /\ Widths[k] >= scale_factor
              /\ Widths[k] % scale_factor = 0
              /\ Widths[k] = IF k - 1 <= Peak
                             THEN k * scale_factor
                             ELSE (Peak + 1) * scale_factor - (k - 1 - Peak) * scale_factor
        /\ 2 * Peak >= num_lines - 1 /\ 2 * (Peak - 1) < num_lines - 1
        /\ pc \in {"finish", "returned"} =>
              /\ Len(drawn) = num_lines
              /\ Widths[num_lines] = IF num_lines % 2 = 1 THEN scale_factor
                                     ELSE 2 * scale_factor

C10_Witness ==
    /\ mpc = "direct" /\ pc = "returned" /\ num_lines = 9 /\ scale_factor = 2
    /\ Widths = <<2, 4, 6, 8, 10, 8, 6, 4, 2>>

====
